---------------------------- MODULE Spec2Model ----------------------------
(***************************************************************************)
(* Movie-review service (src/backend/backend.py): a FastAPI application    *)
(* over two PostgreSQL tables, movies and reviews, with a sentiment        *)
(* classifier called synchronously by create_review.                       *)
(*                                                                         *)
(* Every request handler runs on a worker of its own (Procs), opens a      *)
(* connection of its own and talks to the store one SQL statement at a     *)
(* time.  A handler is modelled statement by statement: one action per     *)
(* statement that reads or writes the tables, with the Python code around  *)
(* it (from the request or the previous statement, up to the next          *)
(* statement or the response) folded into the same action; opening the     *)
(* connection, which touches no table, goes with the first statement.      *)
(* The store is PostgreSQL at READ COMMITTED: a          *)
(* statement sees the rows committed when it starts, and a transaction's   *)
(* own writes stay private until its commit.  Between a handler's INSERT   *)
(* or DELETE and its commit, the row locks the statement took (on the rows *)
(* deleted; FOR KEY SHARE on the movie an inserted review references) keep *)
(* every other transaction off the rows concerned: they wait for the       *)
(* commit and then see its result.  A writing statement and the commit     *)
(* that follows it are therefore one action, taken at the commit.  The one *)
(* exception is create_movie: its INSERT takes no lock another handler     *)
(* waits for, and the id it draws from the sequence is visible to other    *)
(* transactions at once, so the draw (create_movie_insert) and the commit  *)
(* (create_movie_commit) are two actions.                                  *)
(*                                                                         *)
(* Spec is the running service.  StartupSpec is startup() alone, which     *)
(* FastAPI runs to its end before the first request is served.  SeedSpec   *)
(* is the service's writing endpoints together with the seeding script     *)
(* src/init_data.py, which runs in a transaction of its own against the    *)
(* same store.                                                             *)
(*                                                                         *)
(* Numbers: a sentiment score is kept in units of 1/ScoreScale (the code   *)
(* rounds to 4 decimals), an average as a reduced fraction <<num, den>> of *)
(* such units.  Binary floating-point rounding of AVG is not modelled.     *)
(*                                                                         *)
(* src/backend.py is an older copy of the same service; it reads the       *)
(* undefined name DATABASE_URL in get_db_connection, so none of its        *)
(* handlers gets as far as the store.  The model is of                     *)
(* src/backend/backend.py.                                                 *)
(***************************************************************************)
EXTENDS Integers, Sequences, FiniteSets, TLC

VARIABLES
    movies,          \* committed rows of table movies
    reviews,         \* committed rows of table reviews
    movies_id_seq,   \* last value of the SERIAL sequence of movies.id
    reviews_id_seq,  \* last value of the SERIAL sequence of reviews.id
    now,             \* the store's clock (CURRENT_TIMESTAMP)
    pc,              \* per worker: the statement its handler executes next
    req,             \* per worker: the request being handled
    txn_ts,          \* per worker: start time of its open transaction, or NoTxn
    ret_id,          \* per worker: the id RETURNING gave (movie.id / review_id)
    classifier,      \* per worker: what sentiment_analyzer did for this request
    conn,            \* per worker: its connection is open
    response,        \* the HTTP response sent by the last step, if it sent one,
                     \* with what the classifier did for the request
    schema,          \* the tables the store has
    startup_pc,      \* startup(): the statement it executes next; "done" once
                     \* it has returned, "failed" once it has raised
    retry_count,     \* startup(): its local retry_count
    test_scores      \* startup(): the warm-up scores computed so far

\* The state of startup().
startup_vars == <<schema, startup_pc, retry_count, test_scores>>

vars == <<movies, reviews, movies_id_seq, reviews_id_seq, now, pc, req, txn_ts,
          ret_id, classifier, conn, response, startup_vars>>

(***************************************************************************)
(* Bounds of the model.                                                    *)
(***************************************************************************)
MaxMovieId == 2
MaxReviewId == 2
MaxClock == 1

\* The workers that handle requests concurrently.
Procs == {"w1", "w2"}

(***************************************************************************)
(* Values.                                                                 *)
(***************************************************************************)
\* SQL NULL / Python None where a number is expected.
NULL == <<>>

RECURSIVE Gcd(_, _)
Gcd(a, b) == IF b = 0 THEN a ELSE Gcd(b, a % b)

\* A text is a sequence of runs [ch, n]: n >= 1 copies of one character,
\* " " for whitespace.
RECURSIVE TextLen(_)
TextLen(t) == IF t = <<>> THEN 0 ELSE Head(t).n + TextLen(Tail(t))

\* text[:k]
RECURSIVE TextPrefix(_, _)
TextPrefix(t, k) ==
    IF t = <<>> \/ k <= 0 THEN <<>>
    ELSE IF Head(t).n >= k THEN <<[ch |-> Head(t).ch, n |-> k]>>
    ELSE <<Head(t)>> \o TextPrefix(Tail(t), k - Head(t).n)

RECURSIVE LStrip(_)
LStrip(t) ==
    IF t = <<>> THEN <<>>
    ELSE IF Head(t).ch = " " THEN LStrip(Tail(t)) ELSE t

RECURSIVE RStrip(_)
RStrip(t) ==
    IF t = <<>> THEN <<>>
    ELSE IF t[Len(t)].ch = " " THEN RStrip(SubSeq(t, 1, Len(t) - 1)) ELSE t

\* text.strip()
TextStrip(t) == RStrip(LStrip(t))

\* The text of words of the given lengths, one space between two.
RECURSIVE Words(_)
Words(lens) ==
    IF lens = <<>> THEN <<>>
    ELSE IF Len(lens) = 1 THEN <<[ch |-> "a", n |-> lens[1]]>>
    ELSE <<[ch |-> "a", n |-> lens[1]], [ch |-> " ", n |-> 1]>>
             \o Words(Tail(lens))

\* str.lower() on the labels the classifier may give.
Lower(label) ==
    CASE label = "POSITIVE" -> "positive"
      [] label = "NEGATIVE" -> "negative"
      [] OTHER -> label

(***************************************************************************)
(* Program constants.                                                      *)
(***************************************************************************)
\* round(sentiment_score, 4): scores are kept in units of 1/10000.
ScoreScale == 10000
\* The neutral score 0.5, in those units.
Neutral == 5000
\* len(text) > 500: text = text[:500]
MaxTextLen == 500
\* len(text.strip()) < 3
MinTextLen == 3
\* startup(): max_retries = 5
max_retries == 5

(***************************************************************************)
(* Request bodies the clients send.                                        *)
(***************************************************************************)
MovieInputs ==
    { [title |-> "Inception", release_date |-> "2010-07-21",
       director |-> "Nolan", genre |-> "Sci-Fi", poster_url |-> ""],
      [title |-> "Parasite", release_date |-> "2019-05-30",
       director |-> "Bong", genre |-> "Drama", poster_url |-> "http://p"] }

Authors == {"A"}

\* "Amazing film"
Contents == { <<[ch |-> "a", n |-> 7], [ch |-> " ", n |-> 1], [ch |-> "a", n |-> 4]>> }

\* The request bodies that pass ReviewCreate: the empty string is a str.
ReviewInputs ==
    [movie_id : 1..MaxMovieId, author : Authors, content : Contents]
    \cup {[movie_id |-> 1, author |-> "", content |-> <<>>]}

\* Request bodies that lack a required field of ReviewCreate or of Movie.
IncompleteRequests ==
    { [op |-> "create_review", review |-> [movie_id |-> 1, author |-> "A"]],
      [op |-> "create_movie", movie |-> [title |-> "Inception"]] }

\* Texts analyze_sentiment is checked on besides: empty, "ab", "  a  ", 600
\* spaces, "abc", 501 letters, 499 spaces before 3 letters.
Texts ==
    Contents \cup
    { <<>>,
      <<[ch |-> "a", n |-> 2]>>,
      <<[ch |-> " ", n |-> 2], [ch |-> "a", n |-> 1], [ch |-> " ", n |-> 2]>>,
      <<[ch |-> " ", n |-> 600]>>,
      <<[ch |-> "a", n |-> 3]>>,
      <<[ch |-> "a", n |-> 501]>>,
      <<[ch |-> " ", n |-> 499], [ch |-> "a", n |-> 3]>> }

\* What sentiment_analyzer(text) may do: return [{'label', 'score'}] with a
\* confidence in [0, 1] (in units of 1/ScoreScale), or raise: by itself, or
\* where the code reads a result of another shape (no first element, no
\* 'label' or 'score', a score that is no number).
Labels == {"positive", "NEGATIVE"}
Raises == [kind |-> "raise", label |-> "", score |-> 0]
Results(confidences) == [kind : {"result"}, label : Labels, score : confidences]

\* The outcomes the requests of the state machine draw from, and every
\* outcome there is: the pure function is checked on the latter.
Confidences == {6000}
ClassifierOutcomes == Results(Confidences) \cup {Raises}
AllClassifierOutcomes == Results(0..ScoreScale) \cup {Raises}

\* sentiment_analyzer was not called.
NotCalled == [kind |-> "none", label |-> "", score |-> 0]

(***************************************************************************)
(* analyze_sentiment                                                       *)
(***************************************************************************)
\* analyze_sentiment without the truncation: the whole text is looked at.
Untruncated(text) == text

\* The text the classifier would be given.
Truncated(text) ==
    IF TextLen(text) > MaxTextLen THEN TextPrefix(text, MaxTextLen) ELSE text

\* Whether analyze_sentiment reaches sentiment_analyzer(text).
CallsClassifier(text) == ~(TextLen(TextStrip(Truncated(text))) < MinTextLen)

\* round(x, 4) of x = twice / (2 * ScoreScale): to the nearest unit, a tie to
\* the even one.
Round4(twice) ==
    LET q == twice \div 2
    IN  IF twice % 2 = 0 THEN q
        ELSE IF q % 2 = 0 THEN q ELSE q + 1

\* An except branch that returns 0.0.
analyze_sentiment_zero(text, outcome) ==
    IF ~CallsClassifier(text) THEN Neutral
    ELSE IF outcome.kind # "result" THEN 0
    ELSE IF Lower(outcome.label) = "positive"
         THEN Round4(2 * Neutral + outcome.score)
         ELSE Round4(2 * Neutral - outcome.score)

\* 0.5 + score and 0.5 - score, the confidence not halved.
analyze_sentiment_unscaled(text, outcome) ==
    IF ~CallsClassifier(text) THEN Neutral
    ELSE IF outcome.kind # "result" THEN Neutral
    ELSE IF Lower(outcome.label) = "positive"
         THEN Round4(2 * Neutral + 2 * outcome.score)
         ELSE Round4(2 * Neutral - 2 * outcome.score)

\* try: ... sentiment_analyzer(text) ... except Exception: return 0.5
analyze_sentiment(text, outcome) ==
    IF ~CallsClassifier(text) THEN Neutral
    ELSE IF outcome.kind # "result" THEN Neutral
    ELSE IF Lower(outcome.label) = "positive"
         THEN Round4(2 * Neutral + outcome.score)
         ELSE Round4(2 * Neutral - outcome.score)

(***************************************************************************)
(* The SQL queries, over committed tables M (movies) and R (reviews).      *)
(***************************************************************************)
\* FROM movies m JOIN reviews r ON m.id = r.movie_id
InnerJoin(M, R) ==
    { [m |-> x[1], r_id |-> <<x[2].id>>, r_score |-> <<x[2].sentiment_score>>] :
          x \in { y \in M \X R : y[1].id = y[2].movie_id } }

\* FROM movies m LEFT JOIN reviews r ON m.id = r.movie_id: a movie with no
\* review gives one row whose r columns are NULL.  A column of r is <<v>>
\* or NULL.
LeftJoin(M, R) ==
    { [m |-> m, r_id |-> <<r.id>>, r_score |-> <<r.sentiment_score>>] :
          <<m, r>> \in { x \in M \X R : x[1].id = x[2].movie_id } }
    \cup { [m |-> m, r_id |-> NULL, r_score |-> NULL] :
          m \in { x \in M : ~\E r \in R : r.movie_id = x.id } }

\* COUNT(r.id) over a group: the rows whose r.id is not NULL.
Count(G) == Cardinality({ j \in G : j.r_id # NULL })

RECURSIVE SumOf(_)
SumOf(G) ==
    IF G = {} THEN 0
    ELSE LET j == CHOOSE x \in G : TRUE
         IN  j.r_score[1] + SumOf(G \ {j})

\* SUM(r.sentiment_score) over a group.
SumAsAvg(G) ==
    LET S == { j \in G : j.r_score # NULL }
    IN  IF S = {} THEN NULL ELSE <<SumOf(S), 1>>

\* AVG(r.sentiment_score) over a group: NULL when no row has a score, else the
\* sum over the count, as a reduced fraction.
Avg(G) ==
    LET S == { j \in G : j.r_score # NULL }
        n == Cardinality(S)
        t == SumOf(S)
        g == Gcd(t, n)
    IN  IF n = 0 THEN NULL ELSE <<t \div g, n \div g>>

\* GROUP BY m.id, ...: one output row per movie of the join.
MovieWithRating(m, G) ==
    [id |-> m.id, title |-> m.title, release_date |-> m.release_date,
     director |-> m.director, genre |-> m.genre, poster_url |-> m.poster_url,
     review_count |-> Count(G), average_rating |-> Avg(G)]

\* The join without GROUP BY: one output row per row of the join.
Ungrouped(J) == { MovieWithRating(j.m, {j}) : j \in J }

GroupByMovie(J) ==
    { MovieWithRating(m, { j \in J : j.m.id = m.id }) : m \in { j.m : j \in J } }

\* ORDER BY id ASC
RECURSIVE OrderByIdAsc(_)
OrderByIdAsc(S) ==
    IF S = {} THEN <<>>
    ELSE LET low == CHOOSE x \in S : \A y \in S : y.id >= x.id
         IN  <<low>> \o OrderByIdAsc(S \ {low})

\* ORDER BY id DESC
RECURSIVE OrderByIdDesc(_)
OrderByIdDesc(S) ==
    IF S = {} THEN <<>>
    ELSE LET top == CHOOSE x \in S : \A y \in S : y.id <= x.id
         IN  <<top>> \o OrderByIdDesc(S \ {top})

\* The SELECT of get_movies.
SelectMovies(M, R) == OrderByIdDesc(GroupByMovie(LeftJoin(M, R)))

\* The SELECT of get_movie without its WHERE clause.
SelectMovieUnfiltered(M, R, id) == OrderByIdDesc(GroupByMovie(LeftJoin(M, R)))

\* The SELECT of get_movie: WHERE m.id = id; fetchone() gives the row or None
\* (the empty sequence here, the row alone otherwise).
SelectMovie(M, R, id) ==
    OrderByIdDesc(GroupByMovie({ j \in LeftJoin(M, R) : j.m.id = id }))

\* SELECT r.*, m.title as movie_title FROM reviews r JOIN movies m
\* ON r.movie_id = m.id
ReviewJoin(M, R) ==
    { [id |-> x[1].id, movie_id |-> x[1].movie_id, author |-> x[1].author,
       content |-> x[1].content, sentiment_score |-> x[1].sentiment_score,
       created_at |-> x[1].created_at, movie_title |-> x[2].title] :
          x \in { y \in R \X M : y[1].movie_id = y[2].id } }

\* ORDER BY created_at ASC
RECURSIVE OrdersByCreatedAsc(_)
OrdersByCreatedAsc(S) ==
    IF S = {} THEN {<<>>}
    ELSE UNION { { <<top>> \o rest : rest \in OrdersByCreatedAsc(S \ {top}) } :
                 top \in { x \in S : \A y \in S : y.created_at >= x.created_at } }

\* The orders ORDER BY created_at DESC may give: rows of equal created_at come
\* in any order.
RECURSIVE OrdersByCreatedDesc(_)
OrdersByCreatedDesc(S) ==
    IF S = {} THEN {<<>>}
    ELSE UNION { { <<top>> \o rest : rest \in OrdersByCreatedDesc(S \ {top}) } :
                 top \in { x \in S : \A y \in S : y.created_at <= x.created_at } }

\* The SELECT of get_movie_reviews: WHERE r.movie_id = id.
SelectMovieReviews(M, R, id) ==
    OrdersByCreatedDesc({ j \in ReviewJoin(M, R) : j.movie_id = id })

\* The first k elements of sequence rows, all of them when there are fewer.
Limit(rows, k) == SubSeq(rows, 1, IF k < Len(rows) THEN k ELSE Len(rows))

\* The SELECT of get_all_reviews, for limit >= 0: ORDER BY r.created_at DESC
\* LIMIT limit.
SelectRecentReviews(M, R, limit) ==
    { Limit(rows, limit) : rows \in OrdersByCreatedDesc(ReviewJoin(M, R)) }

\* The re-read of create_review: WHERE r.id = id; fetchone().
SelectReview(M, R, id) == { j \in ReviewJoin(M, R) : j.id = id }

(***************************************************************************)
(* Workers, transactions, responses.                                       *)
(***************************************************************************)
NoReq == [op |-> "none"]

\* No transaction open.
NoTxn == -1

NoResponse ==
    [req |-> NoReq, status |-> 0, body |-> NULL, classifier |-> NotCalled,
     raised |-> ""]

\* The exceptions a statement may raise.  OperationalError: the store does not
\* answer; it can happen at any statement.
OperationalError == "OperationalError"
ForeignKeyViolation == "ForeignKeyViolation"
TypeError == "TypeError"
\* LIMIT must not be negative
InvalidRowCountInLimitClause == "InvalidRowCountInLimitClause"
\* A name the module never binds is read.
NameError == "NameError"

\* FastAPI's answer to an exception no handler catches.
InternalServerError == [detail |-> <<"Internal Server Error">>]

\* HTTPException(status_code=500, detail=f"... {str(e)}").  A detail is a
\* sequence of the strings it is put together from.
ServerError(e) == [detail |-> <<"server error", e>>]

\* A handler that closes its connection only where it returns: conn =
\* get_db_connection(); ...; conn.close(), with no try/finally around it.
ReplyUnscoped(p, r, status, body, cls, e) ==
    /\ response' = [req |-> r, status |-> status, body |-> body,
                    classifier |-> cls, raised |-> e]
    /\ pc' = [pc EXCEPT ![p] = "idle"]
    /\ req' = [req EXCEPT ![p] = NoReq]
    /\ txn_ts' = [txn_ts EXCEPT ![p] = NoTxn]
    /\ ret_id' = [ret_id EXCEPT ![p] = 0]
    /\ classifier' = [classifier EXCEPT ![p] = NotCalled]
    /\ conn' = [conn EXCEPT ![p] = IF status = 200 THEN FALSE ELSE conn[p]]

\* with get_db_connection() as conn: ... left, by return or by an exception:
\* conn.close() runs (an open transaction is rolled back by it), and the
\* response for request r goes out; cls is what the classifier did for it,
\* e the exception, other than an HTTPException raised by the handler itself,
\* that ended the handler ("" when none did).
Reply(p, r, status, body, cls, e) ==
    /\ response' = [req |-> r, status |-> status, body |-> body,
                    classifier |-> cls, raised |-> e]
    /\ pc' = [pc EXCEPT ![p] = "idle"]
    /\ req' = [req EXCEPT ![p] = NoReq]
    /\ txn_ts' = [txn_ts EXCEPT ![p] = NoTxn]
    /\ ret_id' = [ret_id EXCEPT ![p] = 0]
    /\ classifier' = [classifier EXCEPT ![p] = NotCalled]
    /\ conn' = [conn EXCEPT ![p] = FALSE]

\* The handler returns, or raises an HTTPException of its own.
RespondWith(p, r, status, body, cls) == Reply(p, r, status, body, cls, "")

Respond(p, r, status, body) == RespondWith(p, r, status, body, classifier[p])

\* Exception e leaves the handler uncaught: FastAPI answers 500.
Unhandled(p, r, e) ==
    Reply(p, r, 500, InternalServerError, classifier[p], e)

\* create_review: except Exception as e: conn.rollback(); raise
\* HTTPException(status_code=500, detail=f"... {str(e)}")
Caught(p, r, e, cls) == Reply(p, r, 500, ServerError(e), cls, e)

\* psycopg.connect(DATABASE_URL, ...) raises: the store does not answer.  No
\* connection was opened; the exception leaves the handler.
ConnectFails(p, r) ==
    /\ response' = [req |-> r, status |-> 500,
                    body |-> InternalServerError, classifier |-> NotCalled,
                    raised |-> OperationalError]
    /\ UNCHANGED <<pc, req, txn_ts, ret_id, classifier, conn>>

\* Worker p is at label: idle, or about to execute that statement of its
\* handler.  Requests are served once startup() has returned.  (No step is
\* taken from a state that still holds a response: see Sent.)
At(p, label) ==
    startup_pc = "done" /\ response = NoResponse /\ pc[p] = label

\* The handler of request r, its connection open, goes on to its next
\* statement.
Goto(p, r, next) ==
    /\ pc' = [pc EXCEPT ![p] = next]
    /\ req' = [req EXCEPT ![p] = r]
    /\ conn' = [conn EXCEPT ![p] = TRUE]
    /\ response' = NoResponse

\* The tables startup() creates.
Tables == {"movies", "reviews"}

\* The service and an empty store, startup() not run yet.
Fresh ==
    /\ movies = {}
    /\ reviews = {}
    /\ movies_id_seq = 0
    /\ reviews_id_seq = 0
    /\ now = 0
    /\ pc = [p \in Procs |-> "idle"]
    /\ req = [p \in Procs |-> NoReq]
    /\ txn_ts = [p \in Procs |-> NoTxn]
    /\ ret_id = [p \in Procs |-> 0]
    /\ classifier = [p \in Procs |-> NotCalled]
    /\ conn = [p \in Procs |-> FALSE]
    /\ response = NoResponse
    /\ retry_count = 0
    /\ test_scores = <<>>

\* The service as it starts to serve requests: startup() has returned, the
\* tables exist.
Init ==
    /\ Fresh
    /\ schema = Tables
    /\ startup_pc = "done"

(***************************************************************************)
(* startup()                                                               *)
(***************************************************************************)
\* What the three warm-up calls of analyze_sentiment are given.
WarmupTexts ==
    << Words(<<1, 2, 2, 5, 6>>), Words(<<5, 1, 5>>), Words(<<2, 4>>) >>

\* A store before the service has ever started on it, or one an earlier run
\* of the service left its tables on.
StartupInit ==
    /\ Fresh
    /\ schema \in {{}, Tables}
    /\ startup_pc = "connect"

\* if retry_count > max_retries: raise
ExhaustedLate(n) == n > max_retries

\* if retry_count >= max_retries: raise
Exhausted(n) == n >= max_retries

\* The statement at hand raises psycopg.OperationalError.  Leaving the with
\* block closes the connection, which rolls back what was not committed.
\* except psycopg.OperationalError: retry_count += 1; raise when the retries
\* are used up, else go on to time.sleep(2).
startup_except ==
    /\ retry_count' = IF Exhausted(retry_count + 1) THEN 0 ELSE retry_count + 1
    /\ startup_pc' = IF Exhausted(retry_count + 1) THEN "failed" ELSE "sleep"
    /\ UNCHANGED <<schema, test_scores>>

\* The statement at hand succeeds: on to the next.
startup_goto(next) ==
    /\ startup_pc' = next
    /\ UNCHANGED <<schema, retry_count, test_scores>>

\* while retry_count < max_retries: try: with get_db_connection() as conn.
\* (Were the condition false, the loop would end and startup() return.)
startup_connect ==
    /\ startup_pc = "connect"
    /\ IF retry_count < max_retries
          THEN startup_goto("create_movies") \/ startup_except
          ELSE /\ startup_pc' = "done"
               /\ retry_count' = 0
               /\ test_scores' = <<>>
               /\ UNCHANGED schema
    /\ UNCHANGED <<movies, reviews, movies_id_seq, reviews_id_seq, now, pc, req,
                   txn_ts, ret_id, classifier, conn, response>>

\* cursor.execute(CREATE TABLE IF NOT EXISTS movies ...)
startup_create_movies ==
    /\ startup_pc = "create_movies"
    /\ startup_goto("create_reviews") \/ startup_except
    /\ UNCHANGED <<movies, reviews, movies_id_seq, reviews_id_seq, now, pc, req,
                   txn_ts, ret_id, classifier, conn, response>>

\* cursor.execute(CREATE TABLE IF NOT EXISTS reviews ...)
startup_create_reviews ==
    /\ startup_pc = "create_reviews"
    /\ startup_goto("commit") \/ startup_except
    /\ UNCHANGED <<movies, reviews, movies_id_seq, reviews_id_seq, now, pc, req,
                   txn_ts, ret_id, classifier, conn, response>>

\* conn.commit(); cursor.close(): the tables that were not there are, empty
\* and their sequences unused; those that were stay as they are.
startup_commit ==
    /\ startup_pc = "commit"
    /\ \/ /\ schema' = schema \cup Tables
          /\ startup_pc' = "warmup"
          /\ UNCHANGED <<retry_count, test_scores>>
       \/ startup_except
    /\ UNCHANGED <<movies, reviews, movies_id_seq, reviews_id_seq, now, pc, req,
                   txn_ts, ret_id, classifier, conn, response>>

\* test_scores = [analyze_sentiment(...), analyze_sentiment(...),
\* analyze_sentiment(...)], one call a step; analyze_sentiment raises nothing.
startup_warmup(outcome) ==
    /\ startup_pc = "warmup"
    /\ LET text == WarmupTexts[Len(test_scores) + 1]
       IN  test_scores' = Append(test_scores, analyze_sentiment(text, outcome))
    /\ startup_pc' = IF Len(test_scores') = Len(WarmupTexts)
                        THEN "break" ELSE "warmup"
    /\ UNCHANGED <<schema, retry_count>>
    /\ UNCHANGED <<movies, reviews, movies_id_seq, reviews_id_seq, now, pc, req,
                   txn_ts, ret_id, classifier, conn, response>>

\* print(... test_scores); break: the loop is left and startup() returns.
startup_break ==
    /\ startup_pc = "break"
    /\ startup_pc' = "done"
    /\ retry_count' = 0
    /\ test_scores' = <<>>
    /\ UNCHANGED schema
    /\ UNCHANGED <<movies, reviews, movies_id_seq, reviews_id_seq, now, pc, req,
                   txn_ts, ret_id, classifier, conn, response>>

\* time.sleep(2), and back to the head of the loop
startup_sleep ==
    /\ startup_pc = "sleep"
    /\ startup_goto("connect")
    /\ UNCHANGED <<movies, reviews, movies_id_seq, reviews_id_seq, now, pc, req,
                   txn_ts, ret_id, classifier, conn, response>>

StartupNext ==
    \/ startup_connect
    \/ startup_create_movies
    \/ startup_create_reviews
    \/ startup_commit
    \/ \E o \in ClassifierOutcomes : startup_warmup(o)
    \/ startup_break
    \/ startup_sleep

\* startup() alone, before any request is served; its statements follow one
\* another without waiting for anything but the store's answer.
StartupSpec == StartupInit /\ [][StartupNext]_vars /\ WF_vars(StartupNext)

(***************************************************************************)
(* POST /movies                                                            *)
(***************************************************************************)
\* An INSERT whose VALUES give director and genre in each other's place.
MovieRowSwapped(id, m) ==
    [id |-> id, title |-> m.title, release_date |-> m.release_date,
     director |-> m.genre, genre |-> m.director, poster_url |-> m.poster_url]

\* The row INSERT INTO movies (title, release_date, director, genre,
\* poster_url) VALUES (...) RETURNING id writes for request body m.
MovieRow(id, m) ==
    [id |-> id, title |-> m.title, release_date |-> m.release_date,
     director |-> m.director, genre |-> m.genre, poster_url |-> m.poster_url]

\* A sequence that counts down.
descending(seq) == seq - 1

\* A sequence restarted by every draw.
restarted(seq) == 1

\* A sequence that gives its last value again.
currval(seq) == IF seq = 0 THEN 1 ELSE seq

\* nextval of a SERIAL column's sequence, given its last value.  The sequence
\* is not transactional: a value drawn by a transaction that does not commit
\* stays drawn.
nextval(seq) == seq + 1

\* INSERT ... RETURNING id; movie.id = cursor.fetchone()['id'].  The id is
\* drawn when the INSERT executes; the row is the transaction's own until it
\* commits.
create_movie_insert(p, m) ==
    /\ At(p, "idle")
    /\ movies_id_seq < MaxMovieId
    /\ LET r == [op |-> "create_movie", movie |-> m]
       IN  \/ /\ ConnectFails(p, r)
              /\ UNCHANGED movies_id_seq
           \/ /\ Unhandled(p, r, OperationalError)
              /\ UNCHANGED movies_id_seq
           \/ /\ movies_id_seq' = nextval(movies_id_seq)
              /\ ret_id' = [ret_id EXCEPT ![p] = nextval(movies_id_seq)]
              /\ Goto(p, r, "cm_commit")
              /\ UNCHANGED <<txn_ts, classifier>>
    /\ UNCHANGED <<movies, reviews, reviews_id_seq, now>>
    /\ UNCHANGED startup_vars

\* conn.commit(); cursor.close(); return movie
create_movie_commit(p) ==
    /\ At(p, "cm_commit")
    /\ LET row == MovieRow(ret_id[p], req[p].movie)
       IN  \/ /\ Unhandled(p, req[p], OperationalError)
              /\ UNCHANGED movies
           \/ /\ movies' = movies \cup {row}
              /\ Respond(p, req[p], 200, row)
    /\ UNCHANGED <<reviews, movies_id_seq, reviews_id_seq, now>>
    /\ UNCHANGED startup_vars

\* FastAPI validates the body against the parameter's model (movie: Movie,
\* review: ReviewCreate) before it calls the handler: a body that lacks a
\* required field is answered 422 and the handler does not run.
request_validation(p, r) ==
    /\ At(p, "idle")
    /\ Respond(p, r, 422, [detail |-> <<"field required">>])
    /\ UNCHANGED <<movies, reviews, movies_id_seq, reviews_id_seq, now>>
    /\ UNCHANGED startup_vars

(***************************************************************************)
(* GET /movies, GET /movies/{movie_id}                                     *)
(***************************************************************************)
get_movies(p) ==
    /\ At(p, "idle")
    /\ LET r == [op |-> "get_movies"]
       IN  \/ ConnectFails(p, r)
           \/ Unhandled(p, r, OperationalError)
           \/ Respond(p, r, 200, SelectMovies(movies, reviews))
    /\ UNCHANGED <<movies, reviews, movies_id_seq, reviews_id_seq, now>>
    /\ UNCHANGED startup_vars

get_movie(p, movie_id) ==
    /\ At(p, "idle")
    /\ LET r == [op |-> "get_movie", movie_id |-> movie_id]
           rows == SelectMovie(movies, reviews, movie_id)
       IN  \/ ConnectFails(p, r)
           \/ Unhandled(p, r, OperationalError)
           \/ /\ rows = <<>>
              /\ Respond(p, r, 404, [detail |-> <<"movie not found">>])
           \/ /\ rows # <<>>
              /\ Respond(p, r, 200, rows[1])
    /\ UNCHANGED <<movies, reviews, movies_id_seq, reviews_id_seq, now>>
    /\ UNCHANGED startup_vars

(***************************************************************************)
(* DELETE /movies/{movie_id}                                               *)
(***************************************************************************)
\* SELECT * FROM movies WHERE id = %s; 404 when fetchone() is None
delete_movie_select(p, movie_id) ==
    /\ At(p, "idle")
    /\ LET r == [op |-> "delete_movie", movie_id |-> movie_id]
       IN  \/ ConnectFails(p, r)
           \/ Unhandled(p, r, OperationalError)
           \/ /\ ~\E m \in movies : m.id = movie_id
              /\ Respond(p, r, 404, [detail |-> <<"no movie to delete">>])
           \/ /\ \E m \in movies : m.id = movie_id
              /\ Goto(p, r, "dm_delete")
              /\ UNCHANGED <<txn_ts, ret_id, classifier>>
    /\ UNCHANGED <<movies, reviews, movies_id_seq, reviews_id_seq, now>>
    /\ UNCHANGED startup_vars

\* A delete of movies that takes no review along.
NoCascade(R, dm) == {}

\* FOREIGN KEY (movie_id) REFERENCES movies(id) ON DELETE CASCADE: the reviews
\* that go with the movies of ids dm.
Cascade(R, dm) == { r \in R : r.movie_id \in dm }

\* DELETE FROM movies WHERE id = %s; conn.commit(); cursor.close(); return the
\* success message.  The DELETE takes whatever rows match, none included.
delete_movie_delete(p) ==
    /\ At(p, "dm_delete")
    /\ \/ /\ Unhandled(p, req[p], OperationalError)
          /\ UNCHANGED <<movies, reviews>>
       \/ LET dm == { m.id : m \in { x \in movies : x.id = req[p].movie_id } }
          IN  /\ movies' = { m \in movies : m.id \notin dm }
              /\ reviews' = reviews \ Cascade(reviews, dm)
              /\ Respond(p, req[p], 200,
                         [message |-> "movie deleted", status |-> "success"])
    /\ UNCHANGED <<movies_id_seq, reviews_id_seq, now>>
    /\ UNCHANGED startup_vars

(***************************************************************************)
(* POST /reviews                                                           *)
(***************************************************************************)
\* The ids the sequence can still give, less those promised to handlers that
\* have not drawn theirs yet (the bound of the model).
ReviewIdsLeft ==
    MaxReviewId - reviews_id_seq
        - Cardinality({ q \in Procs : pc[q] = "cr_insert" })

\* A lookup that leaves the WHERE clause out: every movie matches.
SelectAnyMovie(M, id) == M

\* SELECT * FROM movies WHERE id = %s
SelectMovieById(M, id) == { m \in M : m.id = id }

\* 1. The lookup, the first statement of the transaction (CURRENT_TIMESTAMP
\* is its start); 404 when fetchone() gives no movie.  In the try block: any
\* other exception is answered by rollback and a 500 carrying str(e).
create_review_select(p, review) ==
    /\ At(p, "idle")
    /\ ReviewIdsLeft > 0
    /\ LET r == [op |-> "create_review", review |-> review]
           found == SelectMovieById(movies, review.movie_id)
       IN  \/ ConnectFails(p, r)
           \/ Caught(p, r, OperationalError, classifier[p])
           \/ /\ found = {}
              /\ Respond(p, r, 404, [detail |-> <<"movie not found">>])
           \/ /\ found # {}
              /\ txn_ts' = [txn_ts EXCEPT ![p] = now]
              /\ Goto(p, r, "cr_insert")
              /\ UNCHANGED <<ret_id, classifier>>
    /\ UNCHANGED <<movies, reviews, movies_id_seq, reviews_id_seq, now>>
    /\ UNCHANGED startup_vars

\* An INSERT that leaves sentiment_score out of the column list's values and
\* stores the neutral score whatever was computed.
ReviewRowUnscored(id, r, score, ts) ==
    [id |-> id, movie_id |-> r.movie_id, author |-> r.author,
     content |-> r.content, sentiment_score |-> Neutral, created_at |-> ts]

\* The row INSERT INTO reviews (movie_id, author, content, sentiment_score)
\* VALUES (...) RETURNING id writes; created_at DEFAULT CURRENT_TIMESTAMP.
ReviewRow(id, r, score, ts) ==
    [id |-> id, movie_id |-> r.movie_id, author |-> r.author,
     content |-> r.content, sentiment_score |-> score, created_at |-> ts]

\* A reviews table without the foreign key: any movie_id is accepted.
Unreferenced(M, movie_id) == TRUE

\* FOREIGN KEY (movie_id) REFERENCES movies(id): what a row written to
\* reviews must satisfy when its transaction commits.
References(M, movie_id) == \E m \in M : m.id = movie_id

\* 2. sentiment_score = analyze_sentiment(review.content)
\* 3. INSERT INTO reviews ... RETURNING id; review_id =
\*    cursor.fetchone()['id']; conn.commit().  The foreign-key check fails if
\*    the movie is gone; the sequence value drawn stays drawn.
create_review_insert(p, outcome) ==
    /\ At(p, "cr_insert")
    /\ LET r == req[p].review
           id == nextval(reviews_id_seq)
           score == analyze_sentiment(r.content, outcome)
           cls == IF CallsClassifier(r.content) THEN outcome ELSE NotCalled
       IN  \/ /\ Caught(p, req[p], OperationalError, cls)
              /\ UNCHANGED <<reviews, reviews_id_seq>>
           \/ /\ reviews_id_seq' = id
              /\ Caught(p, req[p], OperationalError, cls)
              /\ UNCHANGED reviews
           \/ /\ ~References(movies, r.movie_id)
              /\ reviews_id_seq' = id
              /\ Caught(p, req[p], ForeignKeyViolation, cls)
              /\ UNCHANGED reviews
           \/ /\ References(movies, r.movie_id)
              /\ reviews_id_seq' = id
              /\ reviews' = reviews \cup {ReviewRow(id, r, score, txn_ts[p])}
              /\ ret_id' = [ret_id EXCEPT ![p] = id]
              /\ classifier' = [classifier EXCEPT ![p] = cls]
              /\ txn_ts' = [txn_ts EXCEPT ![p] = NoTxn]
              /\ Goto(p, req[p], "cr_reread")
    /\ UNCHANGED <<movies, movies_id_seq, now>>
    /\ UNCHANGED startup_vars

\* 4. SELECT r.*, m.title as movie_title ... WHERE r.id = %s; row =
\* cursor.fetchone(); return dict(row).  dict(None) raises TypeError.
create_review_reread(p) ==
    /\ At(p, "cr_reread")
    /\ LET rows == SelectReview(movies, reviews, ret_id[p])
       IN  \/ Caught(p, req[p], OperationalError, classifier[p])
           \/ /\ rows = {}
              /\ Caught(p, req[p], TypeError, classifier[p])
           \/ \E row \in rows : Respond(p, req[p], 200, row)
    /\ UNCHANGED <<movies, reviews, movies_id_seq, reviews_id_seq, now>>
    /\ UNCHANGED startup_vars

(***************************************************************************)
(* GET /movies/{movie_id}/reviews                                          *)
(***************************************************************************)
get_movie_reviews(p, movie_id) ==
    /\ At(p, "idle")
    /\ LET r == [op |-> "get_movie_reviews", movie_id |-> movie_id]
       IN  \/ ConnectFails(p, r)
           \/ Unhandled(p, r, OperationalError)
           \/ \E rows \in SelectMovieReviews(movies, reviews, movie_id) :
                 Respond(p, r, 200, rows)
    /\ UNCHANGED <<movies, reviews, movies_id_seq, reviews_id_seq, now>>
    /\ UNCHANGED startup_vars

(***************************************************************************)
(* GET /reviews                                                            *)
(***************************************************************************)
\* def get_all_reviews(limit: int = 10)
DefaultLimit == 10

\* The query parameter: <<>> when the request has none, else <<limit>>.
LimitInputs == { <<>>, <<-1>>, <<1>> }

LimitOf(param) == IF param = <<>> THEN DefaultLimit ELSE param[1]

\* PostgreSQL refuses a negative LIMIT; nothing in the handler catches that.
get_all_reviews(p, param) ==
    /\ At(p, "idle")
    /\ LET r == [op |-> "get_all_reviews", limit |-> param]
           limit == LimitOf(param)
       IN  \/ ConnectFails(p, r)
           \/ Unhandled(p, r, OperationalError)
           \/ /\ limit < 0
              /\ Unhandled(p, r, InvalidRowCountInLimitClause)
           \/ /\ limit >= 0
              /\ \E rows \in SelectRecentReviews(movies, reviews, limit) :
                    Respond(p, r, 200, rows)
    /\ UNCHANGED <<movies, reviews, movies_id_seq, reviews_id_seq, now>>
    /\ UNCHANGED startup_vars

(***************************************************************************)
(* DELETE /reviews/{review_id}                                             *)
(***************************************************************************)
\* SELECT * FROM reviews WHERE id = %s; 404 when fetchone() is None
delete_review_select(p, review_id) ==
    /\ At(p, "idle")
    /\ LET r == [op |-> "delete_review", review_id |-> review_id]
       IN  \/ ConnectFails(p, r)
           \/ Unhandled(p, r, OperationalError)
           \/ /\ ~\E x \in reviews : x.id = review_id
              /\ Respond(p, r, 404, [detail |-> <<"no review to delete">>])
           \/ /\ \E x \in reviews : x.id = review_id
              /\ Goto(p, r, "dr_delete")
              /\ UNCHANGED <<txn_ts, ret_id, classifier>>
    /\ UNCHANGED <<movies, reviews, movies_id_seq, reviews_id_seq, now>>
    /\ UNCHANGED startup_vars

\* A DELETE FROM reviews without its WHERE clause.
DeleteEveryReview(R, id) == {}

\* What DELETE FROM reviews WHERE id = %s leaves of R.
DeleteReviewById(R, id) == { x \in R : x.id # id }

\* DELETE FROM reviews WHERE id = %s; conn.commit(); cursor.close(); return
\* the success message
delete_review_delete(p) ==
    /\ At(p, "dr_delete")
    /\ \/ /\ Unhandled(p, req[p], OperationalError)
          /\ UNCHANGED reviews
       \/ /\ reviews' = DeleteReviewById(reviews, req[p].review_id)
          /\ Respond(p, req[p], 200,
                     [message |-> "review deleted", status |-> "success"])
    /\ UNCHANGED <<movies, movies_id_seq, reviews_id_seq, now>>
    /\ UNCHANGED startup_vars

(***************************************************************************)
(* GET /                                                                   *)
(***************************************************************************)
\* return {"status": "ok", ..., "environment": ENV, "ai_model": ... if
\* MODEL_TYPE == "5-star" else ...}.  The module assigns ENV and never
\* MODEL_TYPE: building the dict raises NameError at the last entry, whatever
\* the store holds.  The handler opens no connection.
read_root(p) ==
    /\ At(p, "idle")
    /\ Unhandled(p, [op |-> "read_root"], NameError)
    /\ UNCHANGED <<movies, reviews, movies_id_seq, reviews_id_seq, now>>
    /\ UNCHANGED startup_vars

(***************************************************************************)
(* init_data.py: the seeding script                                        *)
(***************************************************************************)
\* SAMPLE_MOVIES, the Korean titles, directors and genres by their English
\* names.
SAMPLE_MOVIES ==
    << [title |-> "Inception (ko)", release_date |-> "2010-07-21",
        director |-> "Christopher Nolan (ko)", genre |-> "SF, action (ko)",
        poster_url |-> "https://image.tmdb.org/inception.jpg"],
       [title |-> "Parasite (ko)", release_date |-> "2019-05-30",
        director |-> "Bong Joon-ho (ko)", genre |-> "drama, thriller (ko)",
        poster_url |-> "https://image.tmdb.org/parasite.jpg"],
       [title |-> "Interstellar (ko)", release_date |-> "2014-11-06",
        director |-> "Christopher Nolan (ko)", genre |-> "SF, drama (ko)",
        poster_url |-> "https://image.tmdb.org/interstellar.jpg"] >>

\* SAMPLE_REVIEWS: (content, sentiment), the sentiment in units of
\* 1/ScoreScale.
SAMPLE_REVIEWS ==
    << [content |-> Words(<<2, 2, 6>>), sentiment |-> 9000],
       [content |-> Words(<<2, 2, 1, 3, 4>>), sentiment |-> 8000],
       [content |-> Words(<<3, 6>>), sentiment |-> 8500],
       [content |-> Words(<<3, 3, 5>>), sentiment |-> 9000],
       [content |-> Words(<<4, 6>>), sentiment |-> 3000],
       [content |-> Words(<<4, 1, 6>>), sentiment |-> 4000],
       [content |-> Words(<<4, 7>>), sentiment |-> 9500],
       [content |-> Words(<<3, 7>>), sentiment |-> 8000],
       [content |-> Words(<<2, 2, 2, 3>>), sentiment |-> 9000],
       [content |-> Words(<<4, 2, 4>>), sentiment |-> 7500],
       [content |-> Words(<<3, 2, 4>>), sentiment |-> 8500],
       [content |-> Words(<<5, 6>>), sentiment |-> 3500],
       [content |-> Words(<<3, 4, 4>>), sentiment |-> 9200] >>

\* authors
SeedAuthors ==
    << "Kim (ko)", "Lee (ko)", "Park (ko)", "Son (ko)", "Bong (ko)",
       "User123", "MovieFan", "Reviewer_A" >>

\* for i in range(12)
ReviewsPerMovie == 12

\* random.uniform(-0.1, 0.1), in units of 1/ScoreScale
MaxJitter == 1000

\* What the random generator gives in one run of the script: where in
\* SAMPLE_REVIEWS and in authors the choices start (they go round from
\* there, row by row), and the jitter, added to every other row and
\* subtracted from the rest.
Draws == [content : {0, 6}, author : {0}, jitter : {MaxJitter}]

\* random.choice(seq), the i-th time
Choice(seq, start, i) == seq[((start + i) % Len(seq)) + 1]

\* random.uniform(-0.1, 0.1), the i-th time
Uniform(d, i) == IF i % 2 = 0 THEN d.jitter ELSE 0 - d.jitter

\* The score with no clamping.
Unclamped(x) == x

\* min(1.0, max(0.0, x))
Clamp(x) == IF x < 0 THEN 0 ELSE IF x > ScoreScale THEN ScoreScale ELSE x

\* final_score of the i-th review written
FinalScore(d, i) ==
    Clamp(Choice(SAMPLE_REVIEWS, d.content, i).sentiment + Uniform(d, i))

\* The movies written, under ids 1, 2, 3 of the restarted sequence.
SeedMovies == { MovieRow(i, SAMPLE_MOVIES[i]) : i \in 1..Len(SAMPLE_MOVIES) }

\* The reviews written, 12 for each movie, under ids 1..36.
SeedReviews(d, ts) ==
    { ReviewRow(i,
                [movie_id |-> ((i - 1) \div ReviewsPerMovie) + 1,
                 author |-> Choice(SeedAuthors, d.author, i),
                 content |-> Choice(SAMPLE_REVIEWS, d.content, i).content],
                FinalScore(d, i), ts) :
          i \in 1..(Len(SAMPLE_MOVIES) * ReviewsPerMovie) }

\* SeedReviews, tabulated.
SeedReviewsAt == [d \in Draws, ts \in 0..MaxClock |-> SeedReviews(d, ts)]

\* One run of the script, a single transaction: TRUNCATE TABLE reviews,
\* movies RESTART IDENTITY CASCADE; the INSERTs; conn.commit().  TRUNCATE
\* takes both tables for itself until the commit: it waits for the handlers
\* that are inside a transaction, and no statement of a handler runs between
\* it and the commit.  (A run the store fails is rolled back, sequences
\* included, and leaves everything as it was.)
init_data(d) ==
    /\ response = NoResponse
    /\ Tables \subseteq schema
    /\ \A p \in Procs : pc[p] \in {"idle", "cr_reread"}
    /\ UNCHANGED <<now, pc, req, txn_ts, ret_id, classifier, conn, response>>
    /\ UNCHANGED startup_vars
    /\ movies_id_seq' = Len(SAMPLE_MOVIES)
    /\ reviews_id_seq' = Len(SAMPLE_MOVIES) * ReviewsPerMovie
    /\ movies' = SeedMovies
    /\ reviews' = SeedReviewsAt[d, now]

(***************************************************************************)
(* The store's clock.                                                      *)
(***************************************************************************)
\* Time passes.  The clock is read only as CURRENT_TIMESTAMP, so only a tick
\* after a reading that is still held (by a row or an open transaction) leads
\* to a different state.
Tick ==
    /\ response = NoResponse
    /\ now < MaxClock
    /\ \/ \E r \in reviews : r.created_at = now
       \/ \E q \in Procs : txn_ts[q] = now
    /\ now' = now + 1
    /\ response' = NoResponse
    /\ UNCHANGED <<movies, reviews, movies_id_seq, reviews_id_seq, pc, req,
                   txn_ts, ret_id, classifier, conn>>
    /\ UNCHANGED startup_vars

\* The response has gone out.  (A response is held in the state for the one
\* step that sends it; the steps that follow are those of the state without
\* it.)
Sent ==
    /\ response # NoResponse
    /\ response' = NoResponse
    /\ UNCHANGED <<movies, reviews, movies_id_seq, reviews_id_seq, now, pc, req,
                   txn_ts, ret_id, classifier, conn>>
    /\ UNCHANGED startup_vars

Next ==
    \/ Sent
    \/ \E p \in Procs, r \in IncompleteRequests : request_validation(p, r)
    \/ \E p \in Procs, m \in MovieInputs : create_movie_insert(p, m)
    \/ \E p \in Procs : create_movie_commit(p)
    \/ \E p \in Procs : get_movies(p)
    \/ \E p \in Procs, id \in 1..MaxMovieId : get_movie(p, id)
    \/ \E p \in Procs, id \in 1..MaxMovieId : delete_movie_select(p, id)
    \/ \E p \in Procs : delete_movie_delete(p)
    \/ \E p \in Procs, r \in ReviewInputs : create_review_select(p, r)
    \/ \E p \in Procs, o \in ClassifierOutcomes : create_review_insert(p, o)
    \/ \E p \in Procs : create_review_reread(p)
    \/ \E p \in Procs, id \in 1..MaxMovieId : get_movie_reviews(p, id)
    \/ \E p \in Procs, l \in LimitInputs : get_all_reviews(p, l)
    \/ \E p \in Procs, id \in 1..MaxReviewId : delete_review_select(p, id)
    \/ \E p \in Procs : delete_review_delete(p)
    \/ \E p \in Procs : read_root(p)
    \/ Tick

Spec == Init /\ [][Next]_vars

\* The operations that write the store, the seeding script among them.
SeedNext ==
    \/ Sent
    \/ \E p \in Procs, m \in MovieInputs : create_movie_insert(p, m)
    \/ \E p \in Procs : create_movie_commit(p)
    \/ \E p \in Procs, id \in 1..MaxMovieId : delete_movie_select(p, id)
    \/ \E p \in Procs : delete_movie_delete(p)
    \/ \E p \in Procs, r \in ReviewInputs : create_review_select(p, r)
    \/ \E p \in Procs, o \in ClassifierOutcomes : create_review_insert(p, o)
    \/ \E p \in Procs : create_review_reread(p)
    \/ \E p \in Procs, id \in 1..MaxReviewId : delete_review_select(p, id)
    \/ \E p \in Procs : delete_review_delete(p)
    \/ \E d \in Draws : init_data(d)
    \/ Tick

\* The service, its reads left out, with the seeding script run against its
\* store at any time.
SeedSpec == Init /\ [][SeedNext]_vars

(***************************************************************************)
(* Properties.  A response is in the state for the step after the          *)
(* statement that produced it, so response' with the primed tables is what *)
(* the caller gets and the store as that statement left it.                *)
(***************************************************************************)
\* The answers that say the store did not answer.
StoreFaults == {InternalServerError, ServerError(OperationalError)}

\* Worker p executes, in this step, the statement at label from of its handler
\* and goes to label to.
Moves(p, from, to) == pc[p] = from /\ pc'[p] = to

\* This step leaves both tables and both sequences as they are.
TablesUnchanged ==
    UNCHANGED <<movies, reviews, movies_id_seq, reviews_id_seq>>

C1_MissingMovieStep ==
    /\ \A p \in Procs :
          Moves(p, "idle", "cr_insert")
              => \E m \in movies : m.id = req'[p].review.movie_id
    /\ ( /\ response = NoResponse
         /\ response'.req.op = "create_review"
         /\ response'.req.review \in ReviewInputs
         /\ pc' = pc
         /\ ~\E m \in movies : m.id = response'.req.review.movie_id
         /\ response'.body \notin StoreFaults )
        => /\ response'.status = 404
           /\ response'.classifier = NotCalled
           /\ classifier' = classifier
           /\ TablesUnchanged

\* C1: a create_review request (its body a ReviewCreate, so that the
\* operation is called) whose movie_id references no movie of the store,
\* its lookup answered by the store, gets 404; no handler goes past the
\* lookup for such a request, so the classifier is not invoked for it; and
\* the reviews table (and the movies table) is after it what it was before.
C1_MissingMovie == [][C1_MissingMovieStep]_vars

\* A 404 to create_review while the store holds a movie and a review.
C1_Witness ==
    /\ response.req.op = "create_review"
    /\ response.status = 404
    /\ movies # {}
    /\ reviews # {}

C2_InsertsOne(p) ==
    \E row \in reviews' :
        /\ \A x \in reviews : x.id # row.id
        /\ reviews' = reviews \cup {row}
        /\ UNCHANGED <<movies, movies_id_seq>>
        /\ row.id = ret_id'[p]
        /\ row.movie_id = req[p].review.movie_id
        /\ row.author = req[p].review.author
        /\ row.content = req[p].review.content
        /\ row.sentiment_score
              = analyze_sentiment(req[p].review.content, classifier'[p])
        /\ row.created_at = txn_ts[p]

C2_Returned ==
    LET body == response'.body
        sent == response'.req.review
    IN  /\ \E p \in Procs : Moves(p, "cr_reread", "idle") /\ ret_id[p] = body.id
        /\ body.movie_id = sent.movie_id
        /\ body.author = sent.author
        /\ body.content = sent.content
        /\ body.sentiment_score
              = analyze_sentiment(sent.content, response'.classifier)
        /\ body.created_at \in 0..now'
        /\ \E m \in movies' : m.id = body.movie_id /\ m.title = body.movie_title
        /\ \A m \in movies' : m.id = body.movie_id => m.title = body.movie_title
        /\ \E x \in reviews' :
              /\ x.id = body.id
              /\ \A y \in reviews' : y.id = body.id => y = x
              /\ x = [k \in DOMAIN x |-> body[k]]

C2_CreateReviewStep ==
    /\ \A p \in Procs :
          /\ Moves(p, "idle", "cr_insert") => TablesUnchanged
          /\ Moves(p, "cr_insert", "cr_reread") => C2_InsertsOne(p)
          /\ Moves(p, "cr_insert", "idle") => UNCHANGED <<movies, reviews>>
          /\ Moves(p, "cr_reread", "idle") => TablesUnchanged
    /\ (response'.req.op = "create_review" /\ response'.status = 200)
          => C2_Returned

\* C2: a create_review request that returns success has, over its steps,
\* added exactly one row to reviews (under a new id, with the submitted
\* fields, the computed score and the store's timestamp) and changed no other
\* review and no movie; the record returned is that row, with the submitted
\* movie_id, author and content, the score computed for it, a created_at the
\* store gave, and movie_title the title of the movie of that id.
C2_SuccessInsertsOne == [][C2_CreateReviewStep]_vars

\* A success returned while the other movie has a review too.
C2_Witness ==
    /\ response.req.op = "create_review"
    /\ response.status = 200
    /\ \E x \in reviews : x.movie_id # response.body.movie_id

\* C3: a create_review request that ends in a 500 after its lookup found the
\* movie has left no row of its own in reviews, whichever statement failed.
C3_FailureAddsNoRow ==
    [][\A p \in Procs :
          ( /\ pc[p] \in {"cr_insert", "cr_reread"}
            /\ pc'[p] = "idle"
            /\ response'.status = 500 )
              => /\ ~\E x \in reviews' : x.id = ret_id[p]
                 /\ reviews' = reviews]_vars

\* The 500 of a failed re-read, the row committed before it still stored.
C3_Witness ==
    /\ response.req.op = "create_review"
    /\ response.status = 500
    /\ response.body = ServerError(OperationalError)
    /\ \E x \in reviews :
          /\ x.id = reviews_id_seq
          /\ x.movie_id = response.req.review.movie_id
    /\ \A q \in Procs : pc[q] = "idle"

\* The step's answer is one of status to a request of operation op.
Answers(op, status) ==
    response'.req.op = op /\ response'.status = status

C4_ClassifierFailedStep ==
    /\ \A p \in Procs :
          (Moves(p, "cr_insert", "cr_reread") /\ classifier'[p].kind = "raise")
              => \E x \in reviews' \ reviews :
                    x.id = ret_id'[p] /\ x.sentiment_score = Neutral
    /\ (response'.req.op = "create_review" /\ response'.classifier.kind = "raise")
          => \/ /\ response'.status = 200
                /\ response'.body.sentiment_score = Neutral
                /\ \E x \in reviews' :
                      x.id = response'.body.id /\ x.sentiment_score = Neutral
             \/ /\ response'.status = 500
                /\ response'.body \in
                      { ServerError(e) :
                          e \in {OperationalError, ForeignKeyViolation, TypeError} }

\* C4: when the classifier raises (by itself or on output the code cannot
\* read) in a create_review for an existing movie, the row is written with
\* the neutral score 0.5, the success returned carries 0.5, and an answer
\* other than success reports a failure of the store, never the classifier's.
C4_ClassifierFailureNeutral == [][C4_ClassifierFailedStep]_vars

\* A success returned for a request whose classifier call raised.
C4_Witness ==
    /\ response.req.op = "create_review"
    /\ response.status = 200
    /\ response.classifier.kind = "raise"
    /\ response.body.sentiment_score = Neutral

\* analyze_sentiment gives a score in [0, 1] on every text and every outcome
\* of the classifier, any label and any confidence in [0, 1].
ScoreInRange ==
    \A t \in Texts, o \in AllClassifierOutcomes :
        analyze_sentiment(t, o) \in 0..ScoreScale

\* Every result the SELECT of get_movie_reviews may give for the movie of
\* review x, over tables M and R, has x once, with the score of x.
ListedOnce(x, M, R) ==
    \A rows \in SelectMovieReviews(M, R, x.movie_id) :
        /\ Cardinality({ i \in 1..Len(rows) : rows[i].id = x.id }) = 1
        /\ \A i \in 1..Len(rows) :
              rows[i].id = x.id => rows[i].sentiment_score = x.sentiment_score

\* A DELETE statement commits in this step.
DeleteStep ==
    \E p \in Procs :
        /\ pc[p] \in {"dm_delete", "dr_delete"}
        /\ pc'[p] = "idle"
        /\ response'.status = 200

C5_ScoreListedStep ==
    /\ ScoreInRange
    /\ Answers("create_review", 200)
          => /\ response'.body.sentiment_score \in 0..ScoreScale
             /\ ListedOnce(response'.body, movies', reviews')
    /\ ~DeleteStep
          => \A x \in ReviewJoin(movies, reviews) : ListedOnce(x, movies', reviews')
    /\ Answers("get_movie_reviews", 200)
          => response'.body
                \in SelectMovieReviews(movies', reviews', response'.req.movie_id)

\* C5: the score a successful create_review returns lies in [0, 1], whatever
\* label and confidence the classifier gave; the list of that movie's reviews
\* has the review once, with that score, when create_review returns and
\* after every later step that is no delete; and get_movie_reviews returns
\* that list.
C5_ScoreInRangeAndListed == [][C5_ScoreListedStep]_vars

\* get_movie_reviews returns a list of two reviews, one of them non-neutral.
C5_Witness ==
    /\ response.req.op = "get_movie_reviews"
    /\ response.status = 200
    /\ Len(response.body) = 2
    /\ \E i \in 1..2 : response.body[i].sentiment_score # Neutral

RECURSIVE SumScores(_)
SumScores(R) ==
    IF R = {} THEN 0
    ELSE LET r == CHOOSE x \in R : TRUE
         IN  r.sentiment_score + SumScores(R \ {r})

\* Row row of get_movie or get_movies carries the number of stored reviews of
\* its movie and, when there are some, their mean a/b: a * number = b * sum.
ReportsCountAndMean(row) ==
    LET mine == { r \in reviews : r.movie_id = row.id }
        n == Cardinality(mine)
        avg == row.average_rating
    IN  /\ row.review_count = n
        /\ n > 0 => /\ Len(avg) = 2
                    /\ avg[2] > 0
                    /\ avg[1] * n = avg[2] * SumScores(mine)

\* C6: in every state, the row get_movie selects for a stored movie and each
\* row get_movies selects carry review_count equal to the number of reviews
\* stored under that movie_id and average_rating equal to the exact mean of
\* their scores, and the successful answers of both are these rows.
C6_CountAndMean ==
    /\ \A m \in movies :
          LET rows == SelectMovie(movies, reviews, m.id)
          IN  Len(rows) = 1 /\ rows[1].id = m.id /\ ReportsCountAndMean(rows[1])
    /\ LET all == SelectMovies(movies, reviews)
       IN  /\ { all[i].id : i \in 1..Len(all) } = { m.id : m \in movies }
           /\ \A i \in 1..Len(all) : ReportsCountAndMean(all[i])
    /\ (response.req.op = "get_movie" /\ response.status = 200)
          => /\ response.body.id = response.req.movie_id
             /\ ReportsCountAndMean(response.body)
    /\ (response.req.op = "get_movies" /\ response.status = 200)
          => \A i \in 1..Len(response.body) : ReportsCountAndMean(response.body[i])

\* get_movie reports two reviews, scored 0.2 and 0.8, as count 2 and mean 0.5.
C6_Witness ==
    /\ response.req.op = "get_movie"
    /\ response.status = 200
    /\ response.body.review_count = 2
    /\ response.body.average_rating = <<Neutral, 1>>
    /\ { r.sentiment_score : r \in reviews } = {2000, 8000}

\* Row row is of a movie without reviews: count 0 and no average.
ReportsNoReviews(row) ==
    /\ row.review_count = 0
    /\ row.average_rating = NULL
    /\ row.average_rating # <<0, 1>>

Unreviewed == { m \in movies : ~\E r \in reviews : r.movie_id = m.id }

\* C7: in every state, a stored movie without reviews is selected by
\* get_movie and by get_movies, with review_count 0 and average_rating NULL,
\* not 0.0; and the successful answers of both carry it so.
C7_ZeroReviews ==
    /\ \A m \in Unreviewed :
          /\ LET rows == SelectMovie(movies, reviews, m.id)
             IN  Len(rows) = 1 /\ rows[1].id = m.id /\ ReportsNoReviews(rows[1])
          /\ LET all == SelectMovies(movies, reviews)
             IN  \E i \in 1..Len(all) : all[i].id = m.id /\ ReportsNoReviews(all[i])
    /\ ( /\ response.req.op = "get_movie"
         /\ response.status = 200
         /\ \E m \in Unreviewed : m.id = response.req.movie_id )
          => ReportsNoReviews(response.body)
    /\ (response.req.op = "get_movies" /\ response.status = 200)
          => \A m \in Unreviewed :
                \E i \in 1..Len(response.body) :
                    /\ response.body[i].id = m.id
                    /\ ReportsNoReviews(response.body[i])

\* get_movies lists a movie without reviews before a reviewed one, two review
\* ids drawn.
C7_Witness ==
    /\ response.req.op = "get_movies"
    /\ response.status = 200
    /\ Len(response.body) = 2
    /\ response.body[1].review_count = 0
    /\ response.body[2].review_count = 1
    /\ reviews_id_seq = 2

C8_CreateThenGetStep ==
    /\ Answers("create_movie", 200)
          => LET sent == response'.req.movie
                 rows == SelectMovie(movies', reviews', response'.body.id)
             IN  /\ Len(rows) = 1
                 /\ rows[1].id = response'.body.id
                 /\ rows[1].title = sent.title
                 /\ rows[1].release_date = sent.release_date
                 /\ rows[1].director = sent.director
                 /\ rows[1].genre = sent.genre
                 /\ rows[1].poster_url = sent.poster_url
                 /\ rows[1].review_count = 0
                 /\ rows[1].average_rating = NULL
    /\ Answers("get_movie", 200)
          => response'.body
                = SelectMovie(movies', reviews', response'.req.movie_id)[1]

\* C8: when create_movie returns, the row get_movie selects for the returned
\* id carries the submitted title, release_date, director, genre and
\* poster_url, review_count 0 and no average_rating; and a successful
\* get_movie returns the row it selects.
C8_CreateThenGet == [][C8_CreateThenGetStep]_vars

\* create_movie returns the second movie while the first has a review.
C8_Witness ==
    /\ response.req.op = "create_movie"
    /\ response.status = 200
    /\ response.body.id = 2
    /\ reviews # {}

C9_DeleteMovieStep ==
    /\ \A p \in Procs :
          /\ Moves(p, "idle", "dm_delete") => TablesUnchanged
          /\ (Moves(p, "dm_delete", "idle") /\ response'.status = 500)
                => TablesUnchanged
          /\ (Moves(p, "dm_delete", "idle") /\ response'.status = 200)
                => LET id == req[p].movie_id
                   IN  /\ movies' = { m \in movies : m.id # id }
                       /\ reviews' = { r \in reviews : r.movie_id # id }
                       /\ SelectMovieReviews(movies', reviews', id) = {<<>>}
                       /\ UNCHANGED <<movies_id_seq, reviews_id_seq>>
    /\ \A r \in reviews' :
          /\ \E m \in movies' : m.id = r.movie_id
          /\ r \notin reviews => r.id > reviews_id_seq
    /\ ( /\ response = NoResponse
         /\ response'.req.op = "delete_review"
         /\ pc' = pc
         /\ ~\E r \in reviews : r.id = response'.req.review_id
         /\ response'.body \notin StoreFaults )
          => response'.status = 404 /\ TablesUnchanged

\* C9: the DELETE of delete_movie removes, in one step, the movie and all the
\* reviews of that movie_id and nothing else (a failed one removes nothing),
\* so no state has a review of a movie that is gone; after it the list of
\* that movie's reviews is empty; a review id is never given twice, and
\* delete_review of an id no stored review has is answered 404.
C9_DeleteMovieCascades == [][C9_DeleteMovieStep]_vars

\* delete_movie has returned success; of two movies and two reviews, one
\* movie and one review are left.
C9_Witness ==
    /\ response.req.op = "delete_movie"
    /\ response.status = 200
    /\ movies_id_seq = 2
    /\ reviews_id_seq = 2
    /\ Cardinality(movies) = 1
    /\ Cardinality(reviews) = 1
    /\ \A m \in movies : m.id # response.req.movie_id

\* C10: in every state of the store, each review's movie_id is the id of a
\* stored movie.
C10_ReferentialIntegrity ==
    \A r \in reviews : \E m \in movies : m.id = r.movie_id

\* The store has refused the INSERT of a review whose movie was deleted
\* after the lookup, another review being stored.
C10_Witness ==
    /\ response.req.op = "create_review"
    /\ response.body = ServerError(ForeignKeyViolation)
    /\ reviews # {}

\* review_count as get_movie's SELECT gives it for movie id over M and R.
ReviewCountOf(M, R, id) == SelectMovie(M, R, id)[1].review_count

C11_DeleteReviewStep ==
    \A p \in Procs :
        /\ Moves(p, "idle", "dr_delete")
              => /\ TablesUnchanged
                 /\ \E x \in reviews : x.id = req'[p].review_id
        /\ (Moves(p, "dr_delete", "idle") /\ response'.status = 500)
              => TablesUnchanged
        /\ (Moves(p, "dr_delete", "idle") /\ response'.status = 200)
              => LET gone == { x \in reviews : x.id = req[p].review_id }
                 IN  /\ Cardinality(gone) <= 1
                     /\ reviews' = reviews \ gone
                     /\ UNCHANGED <<movies, movies_id_seq, reviews_id_seq>>
                     /\ \A m \in movies :
                           ReviewCountOf(movies', reviews', m.id)
                             = ReviewCountOf(movies, reviews, m.id)
                                 - Cardinality({ x \in gone : x.movie_id = m.id })
                     /\ \A x \in gone :
                           ReviewCountOf(movies', reviews', x.movie_id)
                             = ReviewCountOf(movies, reviews, x.movie_id) - 1

\* C11: the DELETE of delete_review, run on a stored review id, removes that
\* one row and nothing else: every other review and every movie stays, the
\* review_count of the row's movie goes down by exactly 1 and that of every
\* other movie stays; the lookup before it and a failed DELETE change nothing.
C11_DeleteReviewRemovesOne == [][C11_DeleteReviewStep]_vars

\* delete_review has returned success; of two reviews drawn, the other one
\* is left.
C11_Witness ==
    /\ response.req.op = "delete_review"
    /\ response.status = 200
    /\ reviews_id_seq = 2
    /\ Cardinality(reviews) = 1
    /\ \A x \in reviews : x.id # response.req.review_id
    /\ \A q \in Procs : pc[q] = "idle"

\* The request answered in this step names an identifier that its table does
\* not hold (before the step).
NamesAbsentId ==
    LET r == response'.req
    IN  \/ /\ r.op \in {"get_movie", "delete_movie"}
           /\ ~\E m \in movies : m.id = r.movie_id
        \/ /\ r.op = "delete_review"
           /\ ~\E x \in reviews : x.id = r.review_id

C12_AbsentIdStep ==
    /\ ( /\ response = NoResponse
         /\ pc' = pc
         /\ NamesAbsentId
         /\ response'.body \notin StoreFaults )
          => /\ response'.status = 404
             /\ TablesUnchanged
    /\ \A p \in Procs :
          /\ Moves(p, "idle", "dm_delete")
                => \E m \in movies : m.id = req'[p].movie_id
          /\ Moves(p, "idle", "dr_delete")
                => \E x \in reviews : x.id = req'[p].review_id

\* C12: get_movie, delete_movie and delete_review on an identifier their
\* table does not hold are answered 404 (the store answering the lookup),
\* with both tables and both sequences as before; none of the two deletes
\* goes on to its DELETE for such an identifier.
C12_AbsentIdNotFound == [][C12_AbsentIdStep]_vars

\* delete_review of an id never given is answered 404, a review stored.
C12_Witness ==
    /\ response.req.op = "delete_review"
    /\ response.status = 404
    /\ response.req.review_id > reviews_id_seq
    /\ reviews # {}

\* Sequence rows has every stored movie exactly once, ids strictly descending.
EveryMovieOnceDescending(rows) ==
    /\ Len(rows) = Cardinality(movies)
    /\ \A m \in movies :
          Cardinality({ i \in 1..Len(rows) : rows[i].id = m.id }) = 1
    /\ \A i \in 1..Len(rows) :
          \E m \in movies :
              /\ m.id = rows[i].id
              /\ m.title = rows[i].title
    /\ \A i \in 1..Len(rows) - 1 : rows[i].id > rows[i + 1].id

\* C13: in every state, what get_movies selects, and what a successful
\* get_movies returns, has every stored movie exactly once, those with
\* several reviews and those with none included, in strictly descending
\* order of id.
C13_EveryMovieOnce ==
    /\ EveryMovieOnceDescending(SelectMovies(movies, reviews))
    /\ (response.req.op = "get_movies" /\ response.status = 200)
          => EveryMovieOnceDescending(response.body)

\* get_movies returns two movies, one with two reviews and one with none.
C13_Witness ==
    /\ response.req.op = "get_movies"
    /\ response.status = 200
    /\ Len(response.body) = 2
    /\ { response.body[1].review_count, response.body[2].review_count } = {0, 2}

\* Sequence rows is what the claim promises of get_all_reviews for limit k
\* over the tables as the step leaves them: min(k, total) stored reviews, no
\* review twice, none left out that is newer than one returned, in
\* non-increasing order of created_at, each with the title of its movie.
MostRecentReviews(rows, k) ==
    LET total == Cardinality(reviews')
        ids == { rows[i].id : i \in 1..Len(rows) }
    IN  /\ Len(rows) = IF k < total THEN k ELSE total
        /\ Cardinality(ids) = Len(rows)
        /\ \A i \in 1..Len(rows) :
              \E x \in reviews', m \in movies' :
                  /\ x = [f \in DOMAIN x |-> rows[i][f]]
                  /\ m.id = x.movie_id
                  /\ m.title = rows[i].movie_title
        /\ \A i \in 1..Len(rows) - 1 :
              rows[i].created_at >= rows[i + 1].created_at
        /\ \A x \in reviews' :
              x.id \notin ids
                  => \A i \in 1..Len(rows) : rows[i].created_at >= x.created_at

C14_RecentReviewsStep ==
    (response'.req.op = "get_all_reviews" /\ response'.raised # OperationalError)
        => /\ response'.status = 200
           /\ MostRecentReviews(response'.body, LimitOf(response'.req.limit))
           /\ TablesUnchanged

\* C14: a get_all_reviews request the store answers returns min(limit, total)
\* reviews, limit being 10 when the request gives none: the most recently
\* created ones over all movies, in non-increasing order of created_at,
\* each with its movie's title.
C14_RecentReviews == [][C14_RecentReviewsStep]_vars

\* The same for the requests whose limit is not negative.
C14_RecentReviewsNonNegative ==
    [][( /\ response'.req.op = "get_all_reviews"
         /\ LimitOf(response'.req.limit) >= 0 ) => C14_RecentReviewsStep]_vars

\* A request with limit -1 has been answered 500.
C14_Witness ==
    /\ response.req.op = "get_all_reviews"
    /\ response.req.limit = <<-1>>
    /\ response.status = 500
    /\ response.raised = InvalidRowCountInLimitClause

\* Sequence rows is exactly the stored reviews of movie id, each once with the
\* title of its movie, no older one before a newer one.
ReviewsOfMovieNewestFirst(rows, id) ==
    LET mine == { x \in reviews : x.movie_id = id }
    IN  /\ Len(rows) = Cardinality(mine)
        /\ \A x \in mine :
              \E i \in 1..Len(rows) :
                  /\ x = [f \in DOMAIN x |-> rows[i][f]]
                  /\ \E m \in movies :
                        m.id = id /\ m.title = rows[i].movie_title
        /\ \A i \in 1..Len(rows) - 1 :
              rows[i].created_at >= rows[i + 1].created_at

\* C15: get_movie_reviews is never answered 404; when the store answers it
\* returns exactly the stored reviews of that movie_id, newest first, which
\* is the empty sequence for a movie without reviews and for an id no stored
\* movie has.
C15_ReviewsOfMovie ==
    response.req.op = "get_movie_reviews"
        => /\ response.status # 404
           /\ response.raised = ""
                 => /\ response.status = 200
                    /\ ReviewsOfMovieNewestFirst(response.body,
                                                 response.req.movie_id)
                    /\ (\A m \in movies : m.id # response.req.movie_id)
                          => response.body = <<>>

\* get_movie_reviews of an id that was given out and that no stored movie
\* has returns the empty sequence, a review of another movie stored.
C15_Witness ==
    /\ response.req.op = "get_movie_reviews"
    /\ response.status = 200
    /\ response.body = <<>>
    /\ response.req.movie_id <= movies_id_seq
    /\ \A m \in movies : m.id # response.req.movie_id
    /\ reviews # {}

\* get_movie_reviews returns two reviews of different created_at.
C15_WitnessOrdered ==
    /\ response.req.op = "get_movie_reviews"
    /\ response.status = 200
    /\ Len(response.body) = 2
    /\ response.body[1].created_at > response.body[2].created_at

RECURSIVE Descending(_)
Descending(ids) ==
    IF ids = {} THEN <<>>
    ELSE LET top == CHOOSE i \in ids : \A j \in ids : j <= i
         IN  <<top>> \o Descending(ids \ {top})

\* The movies of M with their statistics over R, by descending id: what the
\* tables alone determine.
Aggregates(M, R) ==
    LET ids == Descending({ m.id : m \in M })
    IN  [ i \in 1..Len(ids) |->
            LET m == CHOOSE x \in M : x.id = ids[i]
                mine == { r \in R : r.movie_id = m.id }
                n == Cardinality(mine)
                t == SumScores(mine)
                g == Gcd(t, n)
            IN  [id |-> m.id, title |-> m.title,
                 release_date |-> m.release_date, director |-> m.director,
                 genre |-> m.genre, poster_url |-> m.poster_url,
                 review_count |-> n,
                 average_rating |-> IF n = 0 THEN NULL
                                    ELSE <<t \div g, n \div g>>] ]

ReadOps == {"get_movies", "get_movie", "get_movie_reviews", "get_all_reviews"}

C16_ReadStep ==
    /\ Answers("get_movies", 200)
          => response'.body = Aggregates(movies', reviews')
    /\ response'.req.op \in ReadOps
          => /\ TablesUnchanged
             /\ UNCHANGED <<pc, req, txn_ts, ret_id, classifier, conn, now>>

\* C16: what a successful get_movies returns is determined by the committed
\* tables alone (the movies, their order, review_count and average_rating),
\* so two calls with no write committed between them return the same; and
\* the read operations change neither table nor sequence and leave nothing
\* behind in the worker.
C16_ReadsIdempotent == [][C16_ReadStep]_vars

\* get_movies returns two movies, one of them reviewed, while the other
\* worker is between its lookup and its INSERT.
C16_Witness ==
    /\ response.req.op = "get_movies"
    /\ response.status = 200
    /\ Len(response.body) = 2
    /\ reviews # {}
    /\ \E q \in Procs : pc[q] = "cr_insert"

\* C17: whatever delete_movie does concurrently, a create_review request the
\* store itself does not fail ends in one of two ways: success (200) or
\* NotFound (404).
C17_TwoOutcomes ==
    (response.req.op = "create_review" /\ response.raised # OperationalError)
        => response.status \in {200, 404}

\* create_review is answered 500: its movie, and with it the review just
\* committed, was deleted before the re-read.
C17_Witness ==
    /\ response.req.op = "create_review"
    /\ response.status = 500
    /\ response.raised = TypeError
    /\ \A m \in movies : m.id # response.req.review.movie_id

\* The connections open.
OpenConnections == { p \in Procs : conn[p] }

\* C18: a connection is open only while the handler that opened it is
\* between two of its statements: a worker that has answered its request, by
\* a return, a 404 or an exception, holds none, and in a state that holds a
\* response the open connections are those of the handlers still running.
C18_ConnectionsClosed ==
    /\ \A p \in Procs : pc[p] = "idle" => ~conn[p]
    /\ \A p \in Procs : pc[p] # "idle" => conn[p]
    /\ response # NoResponse
          => Cardinality(OpenConnections)
                = Cardinality({ p \in Procs : pc[p] # "idle" })

\* create_review has been ended by an exception of the store after the
\* classifier was called (so after its connection was opened), and no
\* connection is open.
C18_Witness ==
    /\ response.req.op = "create_review"
    /\ response.status = 500
    /\ response.raised = OperationalError
    /\ response.classifier.kind # "none"
    /\ OpenConnections = {}

\* The exceptions that may end create_review, HTTPException apart.
InternalErrors ==
    {OperationalError, ForeignKeyViolation, TypeError}

\* C19: the body of a 500 answered to create_review carries nothing of the
\* exception that caused it, so that two requests failing on different
\* exceptions get the same body.
C19_GenericFailure ==
    (response.req.op = "create_review" /\ response.status = 500)
        => \A i \in 1..Len(response.body.detail) :
              response.body.detail[i] \notin InternalErrors

\* create_review has been answered 500 with the text of the store's
\* exception in the body.
C19_Witness ==
    /\ response.req.op = "create_review"
    /\ response.status = 500
    /\ response.raised = OperationalError
    /\ response.body = ServerError(OperationalError)
    /\ response.body # ServerError(TypeError)

\* Request r is a create request with a required field missing or empty.
InvalidCreate(r) ==
    \/ /\ r.op = "create_review"
       /\ \/ {"movie_id", "author", "content"} \ DOMAIN r.review # {}
          \/ r.review.author = ""
          \/ r.review.content = <<>>
    \/ /\ r.op = "create_movie"
       /\ \/ {"title", "release_date", "director", "genre", "poster_url"}
                \ DOMAIN r.movie # {}
          \/ r.movie.title = ""

C20_InvalidCreateStep ==
    /\ ( /\ response' # NoResponse
         /\ InvalidCreate(response'.req)
         /\ response'.raised # OperationalError )
          => /\ response'.status = 422
             /\ response'.classifier = NotCalled
             /\ TablesUnchanged
    /\ \A p \in Procs :
          Moves(p, "idle", "cr_insert") => ~InvalidCreate(req'[p])
    /\ \A x \in reviews' : x.author # "" /\ x.content # <<>>

\* C20: a create_review or create_movie request with a required field
\* missing or empty is answered with a validation failure (422) before the
\* handler reaches the store or the classifier: no handler goes past its
\* lookup for such a request, and no stored review has an empty author or an
\* empty content.
C20_InvalidCreateRejected == [][C20_InvalidCreateStep]_vars

\* The same for the requests with a required field missing.
C20_IncompleteCreateRejected ==
    [][response'.req \in IncompleteRequests
          => /\ response'.status = 422
             /\ response'.classifier = NotCalled
             /\ TablesUnchanged
             /\ UNCHANGED <<pc, conn>>]_vars

\* create_review has returned success for a request with empty author and
\* empty content, and the row is stored.
C20_Witness ==
    /\ response.req.op = "create_review"
    /\ response.status = 200
    /\ response.req.review.author = ""
    /\ response.req.review.content = <<>>
    /\ \E x \in reviews : x.id = response.body.id /\ x.author = ""

(***************************************************************************)
(* GET /                                                                   *)
(***************************************************************************)
\* C21: in every state of the service, whatever the store holds, a request
\* to GET / is answered 200.
C21_RootAnswersOk ==
    response.req.op = "read_root" => response.status = 200

\* GET / answered 500 while the store holds a movie and a review.
C21_Witness ==
    /\ response.req.op = "read_root"
    /\ response.status = 500
    /\ response.raised = NameError
    /\ movies # {}
    /\ reviews # {}

(***************************************************************************)
(* Movie identifiers                                                       *)
(***************************************************************************)
\* No two rows of M share an id.
UniqueIds(M) == \A a, b \in M : a.id = b.id => a = b

\* The ids drawn by create_movie handlers that have not committed yet.
DrawnMovieIds(at, ids) == { ids[p] : p \in { q \in Procs : at[q] = "cm_commit" } }

C22_MovieIdsStep ==
    /\ UniqueIds(movies')
    \* ids in flight: one handler each, and none of a stored movie
    /\ \A p, q \in Procs :
          (pc'[p] = "cm_commit" /\ pc'[q] = "cm_commit" /\ p # q)
              => ret_id'[p] # ret_id'[q]
    /\ \A m \in movies' : m.id \notin DrawnMovieIds(pc', ret_id')
    \* the id returned is new, and the movie stored under it
    /\ Answers("create_movie", 200)
          => /\ \A m \in movies : m.id # response'.body.id
             /\ response'.body \in movies'
             /\ movies' = movies \cup {response'.body}
    \* a movie that stays keeps its id and its fields
    /\ \A m \in movies, n \in movies' : n.id = m.id => n = m

\* C22: no two stored movies share an id; the id create_movie returns is
\* that of no movie stored when it returns and of no other create_movie in
\* progress, whatever the titles; and every step leaves each movie it does
\* not delete with its id and its fields.
C22_UniqueMovieIds == [][C22_MovieIdsStep]_vars

\* create_movie returns id 2 for a title while another create_movie, which
\* drew id 1 for the same title before it, has not committed yet.
C22_Witness ==
    /\ response.req.op = "create_movie"
    /\ response.status = 200
    /\ response.body.id = 2
    /\ \E q \in Procs :
          /\ pc[q] = "cm_commit"
          /\ ret_id[q] = 1
          /\ req[q].movie.title = response.body.title

\* Two movies of one title are stored.
C22_WitnessDuplicateTitle ==
    \E a, b \in movies : a.id # b.id /\ a.title = b.title

(***************************************************************************)
(* Short texts                                                             *)
(***************************************************************************)
\* The first MaxTextLen characters of t, stripped of the whitespace around
\* them, are fewer than MinTextLen.
ShortAfterTruncation(t) ==
    TextLen(TextStrip(TextPrefix(t, MaxTextLen))) < MinTextLen

\* On the sample texts, whatever the classifier would do.
ShortTextsNeutral ==
    \A t \in Texts, o \in AllClassifierOutcomes :
        ShortAfterTruncation(t)
            => analyze_sentiment(t, o) = Neutral /\ ~CallsClassifier(t)

C23_ShortTextStep ==
    /\ ShortTextsNeutral
    /\ \A p \in Procs :
          ( /\ Moves(p, "cr_insert", "cr_reread")
            /\ ShortAfterTruncation(req[p].review.content) )
              => /\ classifier'[p] = NotCalled
                 /\ \E x \in reviews' \ reviews :
                       x.id = ret_id'[p] /\ x.sentiment_score = Neutral
    /\ ( /\ Answers("create_review", 200)
         /\ ShortAfterTruncation(response'.req.review.content) )
            => /\ response'.classifier = NotCalled
               /\ response'.body.sentiment_score = Neutral

\* C23: for a text whose first 500 characters, stripped, are fewer than 3
\* (the empty and the all-whitespace text among them), analyze_sentiment gives
\* the neutral score and does not call the classifier, whatever the
\* classifier would have answered; a review of such a content is stored and
\* returned with the neutral score, the classifier not called for it.
C23_ShortTextNeutral == [][C23_ShortTextStep]_vars

\* A review of empty content returned, the classifier not called.
C23_Witness ==
    /\ response.req.op = "create_review"
    /\ response.status = 200
    /\ ShortAfterTruncation(response.req.review.content)
    /\ response.classifier = NotCalled
    /\ response.body.sentiment_score = Neutral

\* Sample texts the claim is about: short only once truncated, and
\* whitespace alone.
C23_WitnessSamples ==
    /\ \E t \in Texts :
          /\ ShortAfterTruncation(t)
          /\ TextLen(TextStrip(t)) >= MinTextLen
    /\ \E t \in Texts :
          /\ TextLen(t) > 0
          /\ TextStrip(t) = <<>>

(***************************************************************************)
(* Concurrent create_review                                                *)
(***************************************************************************)
\* The reviews of movie id among R.
ReviewsOf(R, id) == { x \in R : x.movie_id = id }

C24_ConcurrentCreateStep ==
    /\ \A p \in Procs :
          LET id == req[p].review.movie_id
          IN  \* the INSERT of a handler whose movie is still there succeeds,
              \* unless the store fails
              /\ ( /\ Moves(p, "cr_insert", "idle")
                   /\ \E m \in movies : m.id = id )
                    => response'.raised = OperationalError
              \* and adds one row, under an id no stored review has, to the
              \* reviews of that movie, every other row left as it is
              /\ Moves(p, "cr_insert", "cr_reread")
                    => /\ \A x \in reviews : x.id # ret_id'[p]
                       /\ reviews \subseteq reviews'
                       /\ Cardinality(reviews') = Cardinality(reviews) + 1
                       /\ Cardinality(ReviewsOf(reviews', id))
                             = Cardinality(ReviewsOf(reviews, id)) + 1
                       /\ ReviewCountOf(movies', reviews', id)
                             = ReviewCountOf(movies, reviews, id) + 1
              \* the re-read of a handler whose row and movie are still there
              \* succeeds, unless the store fails
              /\ ( /\ Moves(p, "cr_reread", "idle")
                   /\ \E x \in reviews : x.id = ret_id[p]
                   /\ \E m \in movies : m.id = id )
                    => \/ response'.status = 200 /\ response'.body.id = ret_id[p]
                       \/ response'.raised = OperationalError
    \* two handlers past their INSERT hold different ids
    /\ \A p, q \in Procs :
          (p # q /\ pc'[p] = "cr_reread" /\ pc'[q] = "cr_reread")
              => ret_id'[p] # ret_id'[q]

\* C24: create_review requests in progress together for one movie, the
\* movie not deleted meanwhile and the store answering, all succeed whatever
\* the interleaving: each INSERT adds one row under an id of its own and
\* leaves every other row as it is, so the movie's review_count goes up by
\* one with each, and each request returns its own row.
C24_ConcurrentCreates == [][C24_ConcurrentCreateStep]_vars

\* Two requests for one movie, both past their INSERT before either has
\* answered: two rows of that movie, review_count 2.
C24_Witness ==
    /\ \A p \in Procs : pc[p] = "cr_reread"
    /\ \E id \in 1..MaxMovieId :
          /\ \A p \in Procs : req[p].review.movie_id = id
          /\ \E m \in movies : m.id = id
          /\ Cardinality(ReviewsOf(reviews, id)) = 2
          /\ ReviewCountOf(movies, reviews, id) = 2
    /\ \E p, q \in Procs : ret_id[p] = 1 /\ ret_id[q] = 2

(***************************************************************************)
(* Concurrent deletes                                                      *)
(***************************************************************************)
C27_DeleteStep ==
    \A p \in Procs :
        /\ (Moves(p, "dm_delete", "idle") /\ response'.status = 200)
              => \E m \in movies : m.id = req[p].movie_id
        /\ (Moves(p, "dr_delete", "idle") /\ response'.status = 200)
              => \E x \in reviews : x.id = req[p].review_id

\* C27: a delete request that reports success has removed the row it names:
\* the row was stored when its DELETE ran, so that of the delete requests
\* for one id at most one reports success.
C27_OneDeleteSucceeds == [][C27_DeleteStep]_vars

\* Both workers are past the existence check of delete_movie for the same
\* id: both will report success.
C27_Witness ==
    /\ \A p \in Procs : pc[p] = "dm_delete"
    /\ \E id \in 1..MaxMovieId : \A p \in Procs : req[p].movie_id = id

\* A delete_review handler past its existence check whose row is gone, by
\* another delete_review or by the cascade of a delete_movie.
C27_WitnessReview ==
    \E p \in Procs :
        /\ pc[p] = "dr_delete"
        /\ ~\E x \in reviews : x.id = req[p].review_id

(***************************************************************************)
(* startup()                                                               *)
(***************************************************************************)
\* The statements of one attempt that talk to the store.
AttemptLabels == {"connect", "create_movies", "create_reviews", "commit"}

C26_StartupStep ==
    \* an attempt is the 1st to 5th: it runs with 0 to 4 failures counted
    /\ startup_pc' \in AttemptLabels \cup {"sleep"}
          => retry_count' \in 0..(max_retries - 1)
    \* a failed attempt that is retried: counted, then the pause
    /\ (startup_pc \in AttemptLabels /\ startup_pc' = "sleep")
          => retry_count' = retry_count + 1 /\ schema' = schema
    /\ startup_pc = "sleep"
          => startup_pc' = "connect" /\ retry_count' = retry_count
    \* startup() raises at the 5th failure and at no other point
    /\ (startup_pc # "failed" /\ startup_pc' = "failed")
          => /\ startup_pc \in AttemptLabels
             /\ retry_count = max_retries - 1
             /\ schema' = schema
    \* the attempt that commits leaves both tables, and is the last
    /\ (startup_pc = "commit" /\ startup_pc' = "warmup") => schema' = Tables
    /\ startup_pc \in {"warmup", "break"}
          => /\ schema = Tables
             /\ schema' = Tables
             /\ startup_pc' \in {"warmup", "break", "done"}
    \* startup() returns after the three warm-up calls and not otherwise
    /\ (startup_pc # "done" /\ startup_pc' = "done")
          => /\ startup_pc = "break"
             /\ Len(test_scores) = Len(WarmupTexts)
             /\ \A i \in 1..Len(test_scores) : test_scores[i] \in 0..ScoreScale
    \* no row and no sequence is touched
    /\ TablesUnchanged

\* C26: startup() ends, by returning or by raising, after at most 5
\* attempts.  A failed attempt (psycopg.OperationalError at the connect, at
\* either CREATE TABLE or at the commit) adds one to retry_count and is
\* followed by the pause and another attempt, except the 5th, which raises;
\* the attempt that commits leaves both tables in the store, is followed by
\* the three warm-up calls and by the return, and by no further attempt; and
\* what startup() returns to is the state the service starts to serve in.
C26_StartupTerminates ==
    /\ [][C26_StartupStep]_vars
    /\ [](startup_pc = "done" => Init)
    /\ <>(startup_pc \in {"done", "failed"})

\* The 5th attempt, after four failures, has committed and warmed up, on a
\* store that has the tables.
C26_Witness ==
    /\ startup_pc = "break"
    /\ retry_count = max_retries - 1
    /\ schema = Tables
    /\ Len(test_scores) = Len(WarmupTexts)

\* startup() has raised.
C26_WitnessFailed == startup_pc = "failed"

(***************************************************************************)
(* Stored scores                                                           *)
(***************************************************************************)
\* The seeding script runs in this step.
SeedStep == \E d \in Draws : init_data(d)

\* Row x is one the script may write: a sample content with a score within
\* the jitter of that sample's sentiment.
Seeded(x) ==
    \E i \in 1..Len(SAMPLE_REVIEWS) :
        /\ x.content = SAMPLE_REVIEWS[i].content
        /\ x.sentiment_score - SAMPLE_REVIEWS[i].sentiment
              \in (0 - MaxJitter)..MaxJitter

C25_ScoreStep ==
    \* a score is a number of [0, 1]
    /\ \A x \in reviews' : x.sentiment_score \in 0..ScoreScale
    \* a row that appears is the script's, or that of a create_review whose
    \* request carries no score and whose content gives the score stored
    /\ IF SeedStep
          THEN \A x \in reviews' : Seeded(x)
          ELSE /\ \A x \in reviews' \ reviews :
                     \E p \in Procs :
                         /\ Moves(p, "cr_insert", "cr_reread")
                         /\ x.id = ret_id'[p]
                         /\ DOMAIN req[p].review
                               = {"movie_id", "author", "content"}
                         /\ x.sentiment_score
                               = analyze_sentiment(req[p].review.content,
                                                   classifier'[p])
               \* a row that stays is left as it is, its score with it
               /\ \A x \in reviews :
                     x \in reviews' \/ ~\E y \in reviews' : y.id = x.id

\* C25: every stored review has a score, a number of [0, 1]; it was written
\* by create_review, from the classifier's answer for the submitted content
\* (the request has no score field), or by the seeding script, from its
\* sample sentiments; and no step changes the score of a review.
C25_ScoresComputed == [][C25_ScoreStep]_vars

\* The script has run: 36 reviews, one of them with a score the clamp cut
\* to 1.0.
C25_Witness ==
    /\ Cardinality(reviews) = Len(SAMPLE_MOVIES) * ReviewsPerMovie
    /\ \A x \in reviews : Seeded(x)
    /\ \E x \in reviews : x.sentiment_score = ScoreScale

\* A review create_review wrote, scored by the classifier.
C25_WitnessCreated ==
    /\ response.req.op = "create_review"
    /\ response.status = 200
    /\ response.classifier.kind = "result"
    /\ \E x \in reviews :
          x.id = response.body.id /\ x.sentiment_score \notin {Neutral}

(***************************************************************************)
(* Identifiers are not reused                                              *)
(***************************************************************************)
\* The ids of the rows of table T.
Ids(T) == { x.id : x \in T }

C28_MonotoneStep ==
    \* the sequences do not go back, and bound every id given out
    /\ movies_id_seq' >= movies_id_seq
    /\ reviews_id_seq' >= reviews_id_seq
    /\ \A m \in movies' : m.id \in 1..movies_id_seq'
    /\ \A x \in reviews' : x.id \in 1..reviews_id_seq'
    /\ \A i \in DrawnMovieIds(pc', ret_id') : i \in 1..movies_id_seq'
    \* an id given out in this step is above all of them
    /\ \A p \in Procs :
          /\ Moves(p, "idle", "cm_commit") => ret_id'[p] > movies_id_seq
          /\ Moves(p, "cr_insert", "cr_reread") => ret_id'[p] > reviews_id_seq
    \* a row that appears has the id its request drew
    /\ \A m \in movies' \ movies :
          \E p \in Procs : Moves(p, "cm_commit", "idle") /\ m.id = ret_id[p]
    /\ \A x \in reviews' \ reviews :
          \E p \in Procs :
              Moves(p, "cr_insert", "cr_reread") /\ x.id = ret_id'[p]
    \* an id given out earlier whose row is gone (deleted, or never
    \* committed) gets no row again
    /\ \A m \in movies' :
          m.id \in 1..movies_id_seq
              => m.id \in Ids(movies) \cup DrawnMovieIds(pc, ret_id)
    /\ \A x \in reviews' :
          x.id \in 1..reviews_id_seq => x.id \in Ids(reviews)

\* C28: in every step but a run of the seeding script, the sequences do not
\* go back, an id given out is above every id given out before, those of
\* deleted rows included, and an id whose row is gone names no row again:
\* whoever holds the id of a deleted movie or review finds no other row
\* under it.
C28_IdsNotReused == [][SeedStep \/ C28_MonotoneStep]_vars

\* create_movie returns id 2, the only movie stored, while a delete_movie
\* that found movie 1 stored is still holding its id.
C28_Witness ==
    /\ response.req.op = "create_movie"
    /\ response.status = 200
    /\ response.body.id = 2
    /\ movies = {response.body}
    /\ \E p \in Procs : pc[p] = "dm_delete" /\ req[p].movie_id = 1

\* The script has run while a create_review was between its commit and its
\* re-read: the id it holds now names a row of the script.
C28_WitnessReset ==
    \E p \in Procs :
        /\ pc[p] = "cr_reread"
        /\ \E x \in reviews :
              /\ x.id = ret_id[p]
              /\ Seeded(x)
              /\ x.content # req[p].review.content

=============================================================================
